---------------------------- MODULE Spec2Model ----------------------------
(***************************************************************************)
(* A model of the robot-vacuum data cleaning utility (src/clean_data.py),  *)
(* of the functions that call it or read its files (src/Vacuum_EDA.py,     *)
(* src/CIP_analysis.py) and of the crawler's loop (src/CIP_crawling.py).   *)
(*                                                                         *)
(* Python values are records [t, n, d, s]:                                 *)
(*   t = "nan"    the missing value np.nan                                 *)
(*   t = "num"    the decimal number n / d, d a power of ten, normalised   *)
(*   t = "str"    the text s, a sequence of one-character strings          *)
(*   t = "raise"  an exception escaping the call; s names its class        *)
(*   t = "list"   the Python list of the texts in s                        *)
(*   t = "none"   None: no value                                           *)
(*   t = "unbound"  a local variable that was never assigned               *)
(* Floats are modelled as exact decimals: binary rounding is not           *)
(* modelled.  Texts never spell inf, nan, an exponent or an underscore, so *)
(* float() is decided by the sign/digits/point grammar below.              *)
(***************************************************************************)
EXTENDS Integers, Sequences, FiniteSets, TLC

VARIABLES
    fn,     \* harness: the function being called ("none" before a call)
    arg,    \* harness: the argument of the call
    arg_row,    \* harness: the row passed to a row-level function
    ret,    \* harness: the value returned (or the exception raised)
    pc,     \* clean_data: position in the function body
    err,    \* clean_data: the exception that aborted the run, or "none"
    csv,    \* the input file: a sequence of rows of raw cell texts
    verbose,      \* clean_data's verbose argument
    df,           \* the table read from the input file (line 241)
    df_cleaned,   \* the working table: [index, data]
    df_to_save,   \* the table that is saved and returned: [index, data]
    out_file,     \* the output file: [written, rows], written counting the writes
    printed,      \* the removed-row count printed at line 323, or -1
    report_file,  \* the report file: the texts written to it, in file order
    force_clean,  \* get_cleaned_data's force_clean argument
    print_i,      \* load_old's and load_new's print_i argument
    urls,         \* crawler: the product pages to scrape
    url_index,    \* crawler: how many pages the loop has been through
    crawl_data,   \* crawler: the dict data, entry by key
    rating_count_int    \* crawler: the local of that name, or Unbound

vars == <<fn, arg, arg_row, ret, pc, err, csv, verbose, df, df_cleaned,
          df_to_save, out_file, printed, report_file, force_clean, print_i,
          urls, url_index, crawl_data, rating_count_int>>

\* what the callers of clean_data add to the state, and the crawler's state
Session == <<report_file, force_clean, print_i>>
Crawler == <<urls, url_index, crawl_data, rating_count_int>>

---------------------------------------------------------------------------
(* Bounds of the model *)

MaxMantissa == 30    \* numeric inputs are k * 10^e for k in 0..MaxMantissa
EdgeWidth == 2       \* numeric inputs within EdgeWidth steps of each boundary
MaxStrLen == 3       \* every text over Alphabet up to this length is an input
MaxRows == 2         \* rows of the input table
MaxListRows == 3     \* rows of an input table of duplicates, lists and colours

---------------------------------------------------------------------------
(* Values *)

NaN == [t |-> "nan", n |-> 0, d |-> 1, s |-> <<>>]
None == [t |-> "none", n |-> 0, d |-> 1, s |-> <<>>]
Unbound == [t |-> "unbound", n |-> 0, d |-> 1, s |-> <<>>]
Str(chars) == [t |-> "str", n |-> 0, d |-> 1, s |-> chars]
Raise(e) == [t |-> "raise", n |-> 0, d |-> 1, s |-> <<e>>]
List(tokens) == [t |-> "list", n |-> 0, d |-> 1, s |-> tokens]

RECURSIVE Norm(_, _)
Norm(n, d) ==
    IF d > 1 /\ n % 10 = 0 THEN Norm(n \div 10, d \div 10)
    ELSE [t |-> "num", n |-> n, d |-> d, s |-> <<>>]

Num(n, d) == Norm(n, d)
Whole(n) == Num(n, 1)

EmptyTable == [index |-> <<>>, data |-> <<>>]
\* the output file before clean_data has written it
NoFile == [written |-> 0, rows |-> <<>>]

isna(v) == v.t = "nan"
isstr(v) == v.t = "str"
isnum(v) == v.t = "num"
raised(v) == v.t = "raise"
islist(v) == v.t = "list"

\* x / k for a number x and a divisor k in {10, 100, 1000}
Div(x, k) == Norm(x.n, x.d * k)
\* lo <= x <= hi and x > k for integers lo, hi, k
Between(lo, x, hi) == lo * x.d <= x.n /\ x.n <= hi * x.d
Gt(x, k) == x.n > k * x.d

---------------------------------------------------------------------------
(* Text *)

Digits == {"0", "1", "2", "3", "4", "5", "6", "7", "8", "9"}
DigitVal == [c \in Digits |->
    CASE c = "0" -> 0 [] c = "1" -> 1 [] c = "2" -> 2 [] c = "3" -> 3
      [] c = "4" -> 4 [] c = "5" -> 5 [] c = "6" -> 6 [] c = "7" -> 7
      [] c = "8" -> 8 [] c = "9" -> 9]

RECURSIVE DigitsToInt(_)
DigitsToInt(s) ==
    IF s = <<>> THEN 0
    ELSE 10 * DigitsToInt(SubSeq(s, 1, Len(s) - 1)) + DigitVal[s[Len(s)]]

RECURSIVE Pow10(_)
Pow10(k) == IF k = 0 THEN 1 ELSE 10 * Pow10(k - 1)

AllDigits(s) == \A i \in 1..Len(s) : s[i] \in Digits

\* the length of the run of digits of s that starts at position i
RECURSIVE DigitRun(_, _)
DigitRun(s, i) ==
    IF i <= Len(s) /\ s[i] \in Digits THEN 1 + DigitRun(s, i + 1) ELSE 0

\* str.replace(old, '') for a one-character old
RECURSIVE replace(_, _)
replace(s, old) ==
    IF s = <<>> THEN <<>>
    ELSE IF Head(s) = old THEN replace(Tail(s), old)
    ELSE <<Head(s)>> \o replace(Tail(s), old)

\* str.strip() for the whitespace of the model's texts (the space)
RECURSIVE lstrip(_)
lstrip(s) == IF s # <<>> /\ Head(s) = " " THEN lstrip(Tail(s)) ELSE s
RECURSIVE rstrip(_)
rstrip(s) ==
    IF s # <<>> /\ s[Len(s)] = " " THEN rstrip(SubSeq(s, 1, Len(s) - 1)) ELSE s
strip(s) == rstrip(lstrip(s))

\* the first position at which sub occurs in s, or 0
find(s, sub) ==
    LET hits == {i \in 1..(Len(s) - Len(sub) + 1) :
                    SubSeq(s, i, i + Len(sub) - 1) = sub}
    IN  IF hits = {} THEN 0 ELSE CHOOSE i \in hits : \A j \in hits : i <= j

\* the decimal  digits [ "." digits ]  as a number; ip and fp are digit runs
Decimal(ip, fp) == Num(DigitsToInt(ip \o fp), Pow10(Len(fp)))

\* float(s): optional blanks, optional sign, digits with at most one point and
\* at least one digit; anything else is a ValueError
float(s) ==
    LET b == strip(s)
        neg == b # <<>> /\ Head(b) = "-"
        u == IF b # <<>> /\ Head(b) \in {"-", "+"} THEN Tail(b) ELSE b
        k == DigitRun(u, 1)
        ip == SubSeq(u, 1, k)
        dot == k < Len(u) /\ u[k + 1] = "."
        fp == IF dot THEN SubSeq(u, k + 2, Len(u)) ELSE <<>>
        wellformed == /\ AllDigits(fp)
                      /\ dot \/ k = Len(u)
                      /\ Len(ip) + Len(fp) > 0
        m == Decimal(ip, fp)
    IN  IF ~wellformed THEN Raise("ValueError")
        ELSE IF neg THEN Num(0 - m.n, m.d) ELSE m

\* str.split(sep) for a non-empty sep: the pieces between the occurrences of
\* sep, found left to right
RECURSIVE split(_, _)
split(s, sep) ==
    LET at == find(s, sep)
    IN  IF at = 0 THEN <<s>>
        ELSE <<SubSeq(s, 1, at - 1)>>
             \o split(SubSeq(s, at + Len(sep), Len(s)), sep)

\* sep.join(tokens)
RECURSIVE join(_, _)
join(sep, tokens) ==
    IF tokens = <<>> THEN <<>>
    ELSE IF Len(tokens) = 1 THEN tokens[1]
    ELSE tokens[1] \o sep \o join(sep, Tail(tokens))

\* the printable characters in code point order: from the space (32) to the
\* underscore (95), and from a (97) to the tilde (126)
AsciiLow ==
    <<" ", "!", "\"", "#", "$", "%", "&", "'", "(", ")", "*", "+", ",", "-",
      ".", "/", "0", "1", "2", "3", "4", "5", "6", "7", "8", "9", ":", ";",
      "<", "=", ">", "?", "@", "A", "B", "C", "D", "E", "F", "G", "H", "I",
      "J", "K", "L", "M", "N", "O", "P", "Q", "R", "S", "T", "U", "V", "W",
      "X", "Y", "Z", "[", "\\", "]", "^", "_">>
AsciiHigh ==
    <<"a", "b", "c", "d", "e", "f", "g", "h", "i", "j", "k", "l", "m", "n",
      "o", "p", "q", "r", "s", "t", "u", "v", "w", "x", "y", "z", "{", "|",
      "}", "~">>

ord(c) ==
    IF \E i \in 1..Len(AsciiLow) : AsciiLow[i] = c
    THEN 31 + CHOOSE i \in 1..Len(AsciiLow) : AsciiLow[i] = c
    ELSE 96 + CHOOSE i \in 1..Len(AsciiHigh) : AsciiHigh[i] = c

\* a < b for two texts, as Python compares str: by code point, a proper
\* prefix first
RECURSIVE less(_, _)
less(a, b) ==
    IF b = <<>> THEN FALSE
    ELSE IF a = <<>> THEN TRUE
    ELSE IF Head(a) = Head(b) THEN less(Tail(a), Tail(b))
    ELSE ord(Head(a)) < ord(Head(b))

\* sorted(texts) for a set of texts
RECURSIVE sorted(_)
sorted(texts) ==
    IF texts = {} THEN <<>>
    ELSE LET first == CHOOSE a \in texts : \A b \in texts \ {a} : less(a, b)
         IN  <<first>> \o sorted(texts \ {first})

---------------------------------------------------------------------------
(* Program constants *)

MIN_CAPACITY == 1000
MAX_CAPACITY == 10000
MIN_PRICE == 50
MAX_PRICE == 3000

\* get_price_corrections(): product name -> corrected price
price_corrections ==
    [product \in {"Samsung Jet Bot Combo AI Steam+ (VR9700)",
                  "Powerology Smart Robotic",
                  "Neatron Robot hoover",
                  "Aeco Vacubot X3",
                  "Blaupunkt Vacuum cleaner - robot vacuum cleaner RVC201, White",
                  "Severin RB7023 Robot Vacuum Cleaner Chill black / grey"} |->
        CASE product = "Samsung Jet Bot Combo AI Steam+ (VR9700)" -> Num(144005, 100)
          [] product = "Powerology Smart Robotic" -> Whole(999)
          [] product = "Neatron Robot hoover" -> Whole(989)
          [] product = "Aeco Vacubot X3" -> Num(9795, 10)
          [] product = "Blaupunkt Vacuum cleaner - robot vacuum cleaner RVC201, White"
                -> Whole(919)
          [] product = "Severin RB7023 Robot Vacuum Cleaner Chill black / grey"
                -> Whole(919)]

\* get_battery_corrections(): product name -> corrected capacity in mAh
battery_corrections ==
    [product \in {"Mova P50 Pro Ultra", "Liectroux V3SPro", "Liectroux L200"} |->
        CASE product = "Mova P50 Pro Ultra" -> Whole(5200)
          [] product = "Liectroux V3SPro" -> Whole(4400)
          [] product = "Liectroux L200" -> Whole(2600)]

---------------------------------------------------------------------------
(* The cell-level functions *)

\* the first divisor of the list, in list order, whose quotient is in range;
\* 0 when there is none
RECURSIVE FirstDivisor(_, _, _, _)
FirstDivisor(x, divisors, lo, hi) ==
    IF divisors = <<>> THEN 0
    ELSE IF Between(lo, Div(x, Head(divisors)), hi) THEN Head(divisors)
    ELSE FirstDivisor(x, Tail(divisors), lo, hi)

\* the divisors tried smallest first
BatteryDivisorsAscending == <<10, 100, 1000>>
BatteryDivisors == <<1000, 100, 10>>

\* validate_battery_capacity returning an uncorrectable capacity as it is
validate_battery_capacity_unchecked(capacity) ==
    IF isna(capacity) THEN NaN
    ELSE LET c == IF isstr(capacity) THEN float(replace(capacity.s, ","))
                  ELSE capacity
             k == FirstDivisor(c, BatteryDivisors, MIN_CAPACITY, MAX_CAPACITY)
         IN  IF raised(c) THEN c
             ELSE IF Gt(c, MAX_CAPACITY) /\ k # 0 THEN Div(c, k)
             ELSE c

validate_battery_capacity(capacity) ==
    IF isna(capacity) THEN NaN
    ELSE LET c == IF isstr(capacity) THEN float(replace(capacity.s, ","))
                  ELSE capacity
             k == FirstDivisor(c, BatteryDivisors, MIN_CAPACITY, MAX_CAPACITY)
         IN  IF raised(c) THEN c
             ELSE IF Gt(c, MAX_CAPACITY) /\ k # 0 THEN Div(c, k)
             ELSE IF Between(MIN_CAPACITY, c, MAX_CAPACITY) THEN c
             ELSE NaN

\* the divisor 100 tried before 10
PriceDivisorsSwapped == <<100, 10>>
PriceDivisors == <<10, 100>>

\* validate_price without the 5000 threshold on the divisor attempts
validate_price_no_threshold(price) ==
    IF isna(price) THEN NaN
    ELSE LET p == IF isstr(price) THEN float(replace(price.s, ",")) ELSE price
             k == FirstDivisor(p, PriceDivisors, MIN_PRICE, MAX_PRICE)
         IN  IF raised(p) THEN p
             ELSE IF Gt(p, MAX_PRICE) /\ k # 0 THEN Div(p, k)
             ELSE IF Between(MIN_PRICE, p, MAX_PRICE) THEN p
             ELSE NaN

\* validate_price dividing a price over the maximum by ten, once, whatever
\* the quotient
validate_price_one_division(price) ==
    IF isna(price) THEN NaN
    ELSE LET p == IF isstr(price) THEN float(replace(price.s, ",")) ELSE price
         IN  IF raised(p) THEN p
             ELSE IF Gt(p, MAX_PRICE) THEN Div(p, 10)
             ELSE IF Between(MIN_PRICE, p, MAX_PRICE) THEN p
             ELSE NaN

\* validate_price also scaling a price under the minimum up by ten
validate_price_scaling_up(price) ==
    IF isna(price) THEN NaN
    ELSE LET p == IF isstr(price) THEN float(replace(price.s, ",")) ELSE price
             k == FirstDivisor(p, PriceDivisors, MIN_PRICE, MAX_PRICE)
         IN  IF raised(p) THEN p
             ELSE IF Gt(p, MAX_PRICE) /\ Gt(p, 5000) /\ k # 0 THEN Div(p, k)
             ELSE IF Between(MIN_PRICE, p, MAX_PRICE) THEN p
             ELSE IF Between(MIN_PRICE, Norm(p.n * 10, p.d), MAX_PRICE)
                  THEN Norm(p.n * 10, p.d)
             ELSE NaN

validate_price(price) ==
    IF isna(price) THEN NaN
    ELSE LET p == IF isstr(price) THEN float(replace(price.s, ",")) ELSE price
             k == FirstDivisor(p, PriceDivisors, MIN_PRICE, MAX_PRICE)
         IN  IF raised(p) THEN p
             ELSE IF Gt(p, MAX_PRICE) /\ Gt(p, 5000) /\ k # 0 THEN Div(p, k)
             ELSE IF Between(MIN_PRICE, p, MAX_PRICE) THEN p
             ELSE NaN

extract_minutes(time_str) ==
    IF isna(time_str) THEN NaN
    ELSE IF isnum(time_str) THEN time_str
    ELSE LET at == find(time_str.s, <<"m", "i", "n">>)
         IN  IF at # 0 THEN float(SubSeq(time_str.s, 1, at - 1))
             ELSE Whole(0)

\* Series.str.extract(pattern).astype(float) on one cell, for the two patterns
\* the program uses: "dec" is (\d+\.?\d*), "int" is (\d+).  The match is the
\* leftmost one, and each part of it is as long as possible.
str_extract(cell, pattern) ==
    IF ~isstr(cell) THEN NaN
    ELSE LET s == cell.s
             starts == {i \in 1..Len(s) : s[i] \in Digits}
             i == CHOOSE a \in starts : \A b \in starts : a <= b
             k == DigitRun(s, i)
             ip == SubSeq(s, i, i + k - 1)
             dot == i + k <= Len(s) /\ s[i + k] = "."
             f == IF dot THEN DigitRun(s, i + k + 1) ELSE 0
             fp == SubSeq(s, i + k + 1, i + k + f)
         IN  IF starts = {} THEN NaN
             ELSE IF pattern = "dec" THEN Decimal(ip, fp)
             ELSE Decimal(ip, <<>>)

\* the pieces kept as they are, blanks and empty pieces included
unstripped_items(x) == x

\* [item.strip() for item in x if item.strip()] for the pieces x of a text
RECURSIVE stripped_items(_)
stripped_items(x) ==
    IF x = <<>> THEN <<>>
    ELSE (IF strip(Head(x)) # <<>> THEN <<strip(Head(x))>> ELSE <<>>)
         \o stripped_items(Tail(x))

\* clean_list_column(series) for the cells of one column.  fillna('') leaves
\* a number in place: a column of numbers alone has no .str accessor, and
\* beside an absent cell the number is split to NaN, which the lambda cannot
\* iterate.
clean_list_column(series) ==
    LET filled == [i \in 1..Len(series) |->
                      IF isna(series[i]) THEN Str(<<>>) ELSE series[i]]
        no_str_accessor == /\ series # <<>>
                           /\ \A i \in 1..Len(series) : isnum(filled[i])
    IN  [i \in 1..Len(series) |->
            IF no_str_accessor THEN Raise("AttributeError")
            ELSE IF isnum(filled[i]) THEN Raise("TypeError")
            ELSE List(stripped_items(split(filled[i].s, <<",">>)))]

\* merge_colours that ignores color_exact when color_basic is empty
merge_colours_basic_only(row) ==
    LET color1 == row["color_basic"]
    IN  IF isna(color1) THEN Str(<<>>) ELSE color1

merge_colours(row) ==
    LET color1 == row["color_basic"]
        color2 == row["color_exact"]
        both == split(color1.s, <<",", " ">>) \o split(color2.s, <<",", " ">>)
        colours == {both[i] : i \in 1..Len(both)}
    IN  IF isna(color1) \/ color1 = Str(<<>>)
        THEN (IF ~isna(color2) THEN color2 ELSE Str(<<>>))
        ELSE IF isna(color2) \/ color2 = Str(<<>>) THEN color1
        ELSE IF color1 = color2 THEN color1
        ELSE IF ~isstr(color1) \/ ~isstr(color2) THEN Raise("AttributeError")
        ELSE Str(join(<<",", " ">>, sorted(colours)))

---------------------------------------------------------------------------
(* Inputs of the cell-level functions *)

Alphabet == {"1", "5", ".", " ", "m", "i", "n", "h"}

RECURSIVE TextsOfLen(_)
TextsOfLen(k) ==
    IF k = 0 THEN {<<>>}
    ELSE {<<c>> \o w : c \in Alphabet, w \in TextsOfLen(k - 1)}

ShortTexts == UNION {TextsOfLen(k) : k \in 0..MaxStrLen}

SampleTexts ==
    { <<"4", "5", " ", "m", "i", "n">>,                      \* 45 min
      <<"a", "b", "c", " ", "m", "i", "n">>,                 \* abc min
      <<"1", " ", "h", " ", "3", "0", " ", "m", "i", "n">>,  \* 1 h 30 min
      <<"2", " ", "h", "o", "u", "r", "s">>,                 \* 2 hours
      <<"6", "5", " ", "d", "B">>,                           \* 65 dB
      <<"2", "6", "0", "0", "m", "A", "h">>,                 \* 2600mAh
      <<"2", ".", "2", " ", "c", "m">>,                      \* 2.2 cm
      <<"n", "/", "a">>,                                     \* n/a
      <<"1", ",", "2", "9", "9">>,                           \* 1,299
      <<"1", "4", ",", "4", "0", "0", ".", "5", "0">>,       \* 14,400.50
      <<"1", "9", "9", ".", "5">> }                          \* 199.5

TextInputs == {Str(w) : w \in ShortTexts \cup SampleTexts}

Decades == {1, 10, 100, 1000, 10000, 100000, 1000000}
GridNums == {Whole(k * e) : k \in 0..MaxMantissa, e \in Decades}
\* the numbers b + j / den for j within EdgeWidth of 0
Edges(b, den) == {Num(b * den + j, den) : j \in (0 - EdgeWidth)..EdgeWidth}

PriceNums ==
    GridNums \cup {Whole(0 - 5), Num(1440050, 100), Whole(9999999)}
    \cup UNION {Edges(b, 100) : b \in {MIN_PRICE, MAX_PRICE, 5000,
                                       10 * MIN_PRICE, 10 * MAX_PRICE,
                                       100 * MIN_PRICE, 100 * MAX_PRICE}}

CapacityNums ==
    GridNums \cup {Whole(0 - 5), Whole(52000), Whole(12345678)}
    \cup UNION {Edges(b, 1) : b \in {MIN_CAPACITY, MAX_CAPACITY,
                                     10 * MAX_CAPACITY, 100 * MAX_CAPACITY,
                                     1000 * MAX_CAPACITY}}

\* texts of the list and colour columns: commas, blanks, and two one-letter
\* tokens that case-sensitive and case-insensitive order put differently
ListAlphabet == {"B", "a", ",", " "}

RECURSIVE ListTextsOfLen(_)
ListTextsOfLen(k) ==
    IF k = 0 THEN {<<>>}
    ELSE {<<c>> \o w : c \in ListAlphabet, w \in ListTextsOfLen(k - 1)}

T_White == <<"W", "h", "i", "t", "e">>
T_Black == <<"B", "l", "a", "c", "k">>
T_Carpet == <<"C", "a", "r", "p", "e", "t">>

ListSamples ==
    { T_White, T_Black, T_Carpet,
      T_White \o <<",", " ">> \o T_Black,        \* White, Black
      T_White \o <<",">> \o T_Black,             \* White,Black
      T_Carpet \o <<",", " ">> \o T_Carpet,      \* Carpet, Carpet
      <<"a", ",", " ", "B">>,                     \* a, B
      <<" ", "a", ",", ",", "B", " ">>,           \* ' a,,B '
      <<"B", ",", " ", "B">> }                    \* B, B

ListTexts == UNION {ListTextsOfLen(k) : k \in 0..MaxStrLen} \cup ListSamples

NoColours == [color_basic |-> NaN, color_exact |-> NaN]
ColourCells == {NaN} \cup {Str(w) : w \in ListTexts}
ColourRows ==
    {[color_basic |-> a, color_exact |-> b] :
        a \in ColourCells, b \in ColourCells}

FnInputs ==
    {NaN} \cup PriceNums \cup CapacityNums \cup TextInputs
    \cup {Str(w) : w \in ListTexts}

---------------------------------------------------------------------------
(* The harness: one call of one cell-level function on one input *)

Call(f, result) ==
    /\ fn = "none"
    /\ fn' = f
    /\ ret' = result
    /\ UNCHANGED <<Session, Crawler, arg, arg_row, pc, err, csv, verbose,
                   df, df_cleaned, df_to_save, out_file, printed>>

CallValidatePrice == Call("validate_price", validate_price(arg))
CallValidateBatteryCapacity ==
    Call("validate_battery_capacity", validate_battery_capacity(arg))
CallExtractMinutes == Call("extract_minutes", extract_minutes(arg))
CallStrExtractDec == Call("str_extract_dec", str_extract(arg, "dec"))
CallStrExtractInt == Call("str_extract_int", str_extract(arg, "int"))
\* the column passed is the one cell arg
CallCleanListColumn ==
    Call("clean_list_column", clean_list_column(<<arg>>)[1])
CallMergeColours == Call("merge_colours", merge_colours(arg_row))

\* no caller of clean_data has run, and no crawl
NoSession == report_file = <<>> /\ force_clean = FALSE /\ print_i = FALSE
NoCrawl ==
    /\ urls = <<>>
    /\ url_index = 0
    /\ crawl_data = <<>>
    /\ rating_count_int = Unbound

\* a function applied to its own result
CallValidatePriceTwice ==
    Call("validate_price_twice", validate_price(validate_price(arg)))
CallValidateBatteryCapacityTwice ==
    Call("validate_battery_capacity_twice",
         validate_battery_capacity(validate_battery_capacity(arg)))
\* the merged colour of the row merged with itself
CallMergeColoursTwice ==
    LET merged == merge_colours(arg_row)
    IN  Call("merge_colours_twice",
             merge_colours([color_basic |-> merged, color_exact |-> merged]))

InitFn ==
    /\ fn = "none"
    /\ \/ arg \in FnInputs /\ arg_row = NoColours
       \/ arg = NaN /\ arg_row \in ColourRows
    /\ ret = None
    /\ pc = "idle"
    /\ err = "none"
    /\ csv = [header |-> {}, rows |-> <<>>]
    /\ verbose = FALSE
    /\ df = EmptyTable
    /\ df_cleaned = EmptyTable
    /\ df_to_save = EmptyTable
    /\ out_file = NoFile
    /\ printed = 0 - 1
    /\ NoSession
    /\ NoCrawl

NextFn ==
    \/ CallValidatePrice
    \/ CallValidateBatteryCapacity
    \/ CallExtractMinutes
    \/ CallStrExtractDec
    \/ CallStrExtractInt
    \/ CallCleanListColumn
    \/ CallMergeColours
    \/ CallValidatePriceTwice
    \/ CallValidateBatteryCapacityTwice
    \/ CallMergeColoursTwice

SpecFn == InitFn /\ [][NextFn]_vars

---------------------------------------------------------------------------
(* Tables.  A DataFrame is [index, data]: the row labels and, in the same    *)
(* order, the rows, each a function from column name to value.  Of the       *)
(* columns get_important_columns() lists, the model carries the ones that    *)
(* clean_data transforms in lines 251-310; the columns it only copies are    *)
(* left out of the rows.                                                     *)

important_columns ==
    { "product_name",
      "price",
      "rating",
      "rating_count",
      "Key specifications  Robot vacuum cleaner height i",
      "Key specifications  Battery life",
      "Key specifications  Max. noise level",
      "Key specifications  Robot vacuum cleaner features",
      "Key specifications  Smart home ecosystem",
      "Robot vacuum cleaner properties  Max. Suction power i",
      "Robot vacuum cleaner properties  Filter + Dust bag volume",
      "Robot vacuum cleaner properties  Water tank capacity",
      "Robot vacuum cleaner properties  Suitable surfaces",
      "Robot vacuum cleaner properties  Max. Height door sill",
      "Robot vacuum cleaner properties  Room area i",
      "Battery properties  Battery life",
      "Battery properties  Charging time",
      "Battery properties  Capacity",
      "Colour  Colour",
      "Colour  Exact colour description" }

column_rename ==
    [c \in important_columns |->
        CASE c = "Key specifications  Robot vacuum cleaner height i" -> "height"
          [] c = "Key specifications  Battery life" -> "battery_life"
          [] c = "Key specifications  Max. noise level" -> "noise_level"
          [] c = "Key specifications  Robot vacuum cleaner features"
                -> "features"
          [] c = "Key specifications  Smart home ecosystem"
                -> "smart_home_ecosystem"
          [] c = "Robot vacuum cleaner properties  Suitable surfaces"
                -> "suitable_surfaces"
          [] c = "Colour  Colour" -> "color_basic"
          [] c = "Colour  Exact colour description" -> "color_exact"
          [] c = "Robot vacuum cleaner properties  Max. Suction power i"
                -> "suction_power"
          [] c = "Robot vacuum cleaner properties  Filter + Dust bag volume"
                -> "dust_capacity"
          [] c = "Robot vacuum cleaner properties  Water tank capacity"
                -> "water_capacity"
          [] c = "Robot vacuum cleaner properties  Max. Height door sill"
                -> "max_threshold"
          [] c = "Robot vacuum cleaner properties  Room area i" -> "room_area"
          [] c = "Battery properties  Battery life" -> "battery_life_spec"
          [] c = "Battery properties  Charging time" -> "charging_time"
          [] c = "Battery properties  Capacity" -> "battery_capacity"
          [] OTHER -> c]

\* the name a renamed column had in the input file
source_column(new) == CHOOSE c \in important_columns : column_rename[c] = new
cleaned_columns == {column_rename[c] : c \in important_columns}
\* the columns of the table once the colour columns are merged (lines 296-298)
output_columns ==
    (cleaned_columns \ {"color_basic", "color_exact"}) \cup {"color"}

\* the dtype pandas gives a column: object when it holds a text
dtype(data, c) ==
    IF \E i \in 1..Len(data) : isstr(data[i][c]) THEN "object" ELSE "float64"

\* texts that pd.read_csv takes for a missing value (its default na_values),
\* the empty cell first
na_values ==
    { <<>>,
      <<"n", "/", "a">>, <<"N", "/", "A">>, <<"N", "A">>,
      <<"n", "a", "n">>, <<"N", "a", "N">>,
      <<"n", "u", "l", "l">>, <<"N", "U", "L", "L">>,
      <<"N", "o", "n", "e">> }

\* pd.read_csv: a cell in na_values is NaN; a column whose other cells are all
\* numbers is numeric, any other column keeps those cells as text
read_csv(file) ==
    LET numeric(c) == \A i \in 1..Len(file.rows) :
            file.rows[i][c] \in na_values \/ isnum(float(file.rows[i][c]))
        cell(w, c) == IF w \in na_values THEN NaN
                      ELSE IF numeric(c) THEN float(w) ELSE Str(w)
    IN  [index |-> [i \in 1..Len(file.rows) |-> i - 1],
         data |-> [i \in 1..Len(file.rows) |->
                     [c \in file.header |-> cell(file.rows[i][c], c)]]]

\* df[important_columns].copy() and rename(columns=column_rename), one row
select_rename(row) == [new \in cleaned_columns |-> row[source_column(new)]]

\* a product name is a text of one token, the whole name
Name(product) == Str(<<product>>)
product_of(row) == row["product_name"].s[1]
named_in(row, corrections) ==
    isstr(row["product_name"]) /\ product_of(row) \in DOMAIN corrections

\* the correction applied only to a row that has a value in the column
apply_corrections_to_present(data, column, corrections) ==
    [i \in 1..Len(data) |->
        IF named_in(data[i], corrections) /\ ~isna(data[i][column])
        THEN [data[i] EXCEPT ![column] = corrections[product_of(data[i])]]
        ELSE data[i]]

\* df_cleaned.loc[df_cleaned['product_name'] == product, 'price'] = correct_price
\* for every entry of the table; the same for the battery table
apply_corrections(data, column, corrections) ==
    [i \in 1..Len(data) |->
        IF named_in(data[i], corrections)
        THEN [data[i] EXCEPT ![column] = corrections[product_of(data[i])]]
        ELSE data[i]]

\* df_cleaned[column] = df_cleaned[column].str.extract(pattern).astype(float)
extract_column(data, column, pattern) ==
    [i \in 1..Len(data) |->
        [data[i] EXCEPT ![column] = str_extract(@, pattern)]]

\* the .str accessor exists on a column of dtype object only
str_accessor_fails(data, columns) ==
    \E c \in columns : dtype(data, c) # "object"

\* the function a name passed to Series.apply stands for, applied to a cell
call(f, cell) ==
    CASE f = "validate_battery_capacity" -> validate_battery_capacity(cell)
      [] f = "extract_minutes" -> extract_minutes(cell)
      [] f = "validate_price" -> validate_price(cell)

\* df_cleaned[column] = df_cleaned[column].apply(f)
apply_column(data, column, f) ==
    [i \in 1..Len(data) |-> [data[i] EXCEPT ![column] = call(f, @)]]

\* an exception raised by a cell function escapes apply()
apply_fails(data) ==
    \E i \in 1..Len(data) : \E c \in DOMAIN data[i] : raised(data[i][c])

\* the cells of a column, in row order
column_of(data, column) == [i \in 1..Len(data) |-> data[i][column]]

\* df_cleaned[column] = clean_list_column(df_cleaned[column])
clean_lists(data, column) ==
    LET cleaned == clean_list_column(column_of(data, column))
    IN  [i \in 1..Len(data) |-> [data[i] EXCEPT ![column] = cleaned[i]]]

\* the class of the exception of the first column, in statement order, that
\* holds a raised cell; "none" when no column does
RECURSIVE exception_in(_, _)
exception_in(data, columns) ==
    IF columns = <<>> THEN "none"
    ELSE LET bad == {i \in 1..Len(data) : raised(data[i][Head(columns)])}
         IN  IF bad # {}
             THEN data[CHOOSE i \in bad : TRUE][Head(columns)].s[1]
             ELSE exception_in(data, Tail(columns))

\* df_cleaned['color'] = df_cleaned.apply(merge_colours, axis=1) and the drop
\* of the two colour columns, one row
merge_row(row) ==
    [c \in output_columns |->
        IF c = "color" THEN merge_colours(row) ELSE row[c]]

\* the list joined by a comma
comma_joined(x) == Str(IF x.s # <<>> THEN join(<<",">>, x.s) ELSE <<>>)
\* lambda x: '|'.join(x) if x else ''
pipe_joined(x) == Str(IF x.s # <<>> THEN join(<<"|">>, x.s) ELSE <<>>)

\* lines 308-310, one row
lists_to_strings(row) ==
    [row EXCEPT !["suitable_surfaces"] = pipe_joined(@),
                !["features"] = pipe_joined(@),
                !["smart_home_ecosystem"] = pipe_joined(@)]

\* df_cleaned.dropna(subset=['price']): the positions kept
RECURSIVE notna_positions(_, _, _)
notna_positions(data, subset, i) ==
    IF i > Len(data) THEN <<>>
    ELSE (IF \E c \in subset : isna(data[i][c]) THEN <<>> ELSE <<i>>)
         \o notna_positions(data, subset, i + 1)

take(frame, positions) ==
    [index |-> [k \in 1..Len(positions) |-> frame.index[positions[k]]],
     data |-> [k \in 1..Len(positions) |-> frame.data[positions[k]]]]

\* dropna() without the subset: a missing value in any column removes the row
dropna_any_column(frame, subset) ==
    take(frame, notna_positions(frame.data, output_columns, 1))
dropna(frame, subset) == take(frame, notna_positions(frame.data, subset, 1))

\* the positions of the rows that no later row equals
RECURSIVE last_occurrences(_, _)
last_occurrences(data, i) ==
    IF i > Len(data) THEN <<>>
    ELSE (IF \E j \in (i + 1)..Len(data) : data[j] = data[i]
          THEN <<>> ELSE <<i>>)
         \o last_occurrences(data, i + 1)

\* the positions of the rows whose product_name no earlier row has
RECURSIVE first_occurrences_by_name(_, _)
first_occurrences_by_name(data, i) ==
    IF i > Len(data) THEN <<>>
    ELSE (IF \E j \in 1..(i - 1) :
                data[j]["product_name"] = data[i]["product_name"]
          THEN <<>> ELSE <<i>>)
         \o first_occurrences_by_name(data, i + 1)

\* drop_duplicates(): a row equal in every column to an earlier row is removed
\* (missing values compare equal); the positions kept
RECURSIVE first_occurrences(_, _)
first_occurrences(data, i) ==
    IF i > Len(data) THEN <<>>
    ELSE (IF \E j \in 1..(i - 1) : data[j] = data[i] THEN <<>> ELSE <<i>>)
         \o first_occurrences(data, i + 1)

\* the table with its duplicates left in
keep_duplicates(frame) == frame
drop_duplicates(frame) == take(frame, first_occurrences(frame.data, 1))

reset_index(frame) ==
    [index |-> [k \in 1..Len(frame.data) |-> k - 1], data |-> frame.data]

\* the count taken against the saved table, after the duplicates are gone
removed_rows_after_dedup == Len(df.data) - Len(df_to_save.data)
\* len(df) - len(df_cleaned), the count printed at line 323
removed_rows == Len(df.data) - Len(df_cleaned.data)

---------------------------------------------------------------------------
(* clean_data(input_file, output_file, verbose), statement by statement *)

Harness == <<fn, arg, arg_row, ret>>

\* a statement that, when it raises, saves the working table as it stands
StatementSavingPartial(from, to, failed, exception, data) ==
    /\ pc = from
    /\ IF failed
       THEN /\ pc' = "aborted"
            /\ err' = exception
            /\ out_file' = [written |-> out_file.written + 1,
                            rows |-> df_cleaned.data]
            /\ UNCHANGED df_cleaned
       ELSE /\ pc' = to
            /\ df_cleaned' = [df_cleaned EXCEPT !.data = data]
            /\ UNCHANGED <<err, out_file>>
    /\ UNCHANGED <<Harness, Session, Crawler, csv, verbose, df, df_to_save,
                   printed>>

\* pc moves on to `to` with the working table's rows replaced, unless the
\* statement raised: then the call ends with the exception
Statement(from, to, failed, exception, data) ==
    /\ pc = from
    /\ IF failed
       THEN /\ pc' = "aborted"
            /\ err' = exception
            /\ UNCHANGED df_cleaned
       ELSE /\ pc' = to
            /\ df_cleaned' = [df_cleaned EXCEPT !.data = data]
            /\ UNCHANGED err
    /\ UNCHANGED <<Harness, Session, Crawler, csv, verbose, df, df_to_save,
                   out_file, printed>>

\* line 241
ReadCsv ==
    /\ pc = "start"
    /\ df' = read_csv(csv)
    /\ pc' = "select"
    /\ UNCHANGED <<Harness, Session, Crawler, err, csv, verbose, df_cleaned,
                   df_to_save, out_file, printed>>

\* the selection done as df.reindex(columns=important_columns): a column the
\* file lacks is filled with NaN
SelectColumnsReindexed ==
    /\ pc = "select"
    /\ df_cleaned' =
          [index |-> df.index,
           data |-> [i \in 1..Len(df.data) |->
                       [new \in cleaned_columns |->
                           IF source_column(new) \in csv.header
                           THEN df.data[i][source_column(new)] ELSE NaN]]]
    /\ pc' = "price_corrections"
    /\ UNCHANGED <<Harness, Session, Crawler, err, csv, verbose, df,
                   df_to_save, out_file, printed>>

\* lines 244-249: df[important_columns] raises KeyError on a missing column
SelectColumns ==
    /\ pc = "select"
    /\ IF important_columns \subseteq csv.header
       THEN /\ df_cleaned' =
                 [index |-> df.index,
                  data |-> [i \in 1..Len(df.data) |-> select_rename(df.data[i])]]
            /\ pc' = "price_corrections"
            /\ UNCHANGED err
       ELSE /\ pc' = "aborted"
            /\ err' = "KeyError"
            /\ UNCHANGED df_cleaned
    /\ UNCHANGED <<Harness, Session, Crawler, csv, verbose, df, df_to_save,
                   out_file, printed>>

\* lines 252-254
ApplyPriceCorrections ==
    Statement("price_corrections", "extract_specs", FALSE, "none",
              apply_corrections(df_cleaned.data, "price", price_corrections))

\* lines 258-267
ExtractSpecs ==
    Statement("extract_specs", "battery_corrections",
        str_accessor_fails(df_cleaned.data,
            {"noise_level", "suction_power", "room_area", "battery_capacity"}),
        "AttributeError",
        extract_column(
            extract_column(
                extract_column(
                    extract_column(df_cleaned.data, "noise_level", "dec"),
                    "suction_power", "int"),
                "room_area", "int"),
            "battery_capacity", "int"))

\* lines 270-272
ApplyBatteryCorrections ==
    Statement("battery_corrections", "validate_battery", FALSE, "none",
        apply_corrections(df_cleaned.data, "battery_capacity",
                          battery_corrections))

\* line 275
ValidateBattery ==
    LET data == apply_column(df_cleaned.data, "battery_capacity",
                             "validate_battery_capacity")
    IN  Statement("validate_battery", "extract_sizes",
                  apply_fails(data), "ValueError", data)

\* lines 278-283
ExtractSizes ==
    Statement("extract_sizes", "extract_times",
        str_accessor_fails(df_cleaned.data,
            {"height", "max_threshold", "dust_capacity", "water_capacity"}),
        "AttributeError",
        extract_column(
            extract_column(
                extract_column(
                    extract_column(df_cleaned.data, "height", "dec"),
                    "max_threshold", "int"),
                "dust_capacity", "dec"),
            "water_capacity", "dec"))

\* lines 286-288
ExtractTimes ==
    LET data == apply_column(
                    apply_column(
                        apply_column(df_cleaned.data, "battery_life",
                                     "extract_minutes"),
                        "battery_life_spec", "extract_minutes"),
                    "charging_time", "extract_minutes")
    IN  Statement("extract_times", "clean_lists",
                  apply_fails(data), "ValueError", data)

\* lines 291-293
CleanLists ==
    LET data == clean_lists(
                    clean_lists(
                        clean_lists(df_cleaned.data, "suitable_surfaces"),
                        "features"),
                    "smart_home_ecosystem")
    IN  Statement("clean_lists", "merge_colours", apply_fails(data),
                  exception_in(data, <<"suitable_surfaces", "features",
                                       "smart_home_ecosystem">>),
                  data)

\* lines 296-298
MergeColours ==
    LET data == [i \in 1..Len(df_cleaned.data) |->
                    merge_row(df_cleaned.data[i])]
    IN  Statement("merge_colours", "validate_price", apply_fails(data),
                  "AttributeError", data)

\* line 301
ValidatePrice ==
    LET data == apply_column(df_cleaned.data, "price", "validate_price")
    IN  Statement("validate_price", "dropna", apply_fails(data), "ValueError",
                  data)

\* line 304
DropInvalidPrices ==
    /\ pc = "dropna"
    /\ df_cleaned' = dropna(df_cleaned, {"price"})
    /\ pc' = "to_strings"
    /\ UNCHANGED <<Harness, Session, Crawler, err, csv, verbose, df,
                   df_to_save, out_file, printed>>

\* lines 307-310
ListsToStrings ==
    /\ pc = "to_strings"
    /\ df_to_save' =
          [df_cleaned EXCEPT !.data = [i \in 1..Len(df_cleaned.data) |->
                                         lists_to_strings(df_cleaned.data[i])]]
    /\ pc' = "drop_duplicates"
    /\ UNCHANGED <<Harness, Session, Crawler, err, csv, verbose, df,
                   df_cleaned, out_file, printed>>

\* line 313
DropDuplicates ==
    /\ pc = "drop_duplicates"
    /\ df_to_save' = drop_duplicates(df_to_save)
    /\ pc' = "reset_index"
    /\ UNCHANGED <<Harness, Session, Crawler, err, csv, verbose, df,
                   df_cleaned, out_file, printed>>

\* line 316
ResetIndex ==
    /\ pc = "reset_index"
    /\ df_to_save' = reset_index(df_to_save)
    /\ pc' = "to_csv"
    /\ UNCHANGED <<Harness, Session, Crawler, err, csv, verbose, df,
                   df_cleaned, out_file, printed>>

\* line 319
SaveCsv ==
    /\ pc = "to_csv"
    /\ out_file' = [written |-> out_file.written + 1, rows |-> df_to_save.data]
    /\ pc' = "report"
    /\ UNCHANGED <<Harness, Session, Crawler, err, csv, verbose, df,
                   df_cleaned, df_to_save, printed>>

\* lines 321-339
PrintAndReturn ==
    /\ pc = "report"
    /\ printed' = IF verbose THEN removed_rows ELSE printed
    /\ pc' = "done"
    /\ UNCHANGED <<Harness, Session, Crawler, err, csv, verbose, df,
                   df_cleaned, df_to_save, out_file>>

---------------------------------------------------------------------------
(* Input files *)

T_45min == <<"4", "5", " ", "m", "i", "n">>
T_65dB == <<"6", "5", " ", "d", "B">>
T_5200mAh == <<"5", "2", "0", "0", " ", "m", "A", "h">>
T_199_5 == <<"1", "9", "9", ".", "5">>

SpecColumns ==
    {"noise_level", "suction_power", "room_area", "height", "max_threshold",
     "dust_capacity", "water_capacity"}
TimeColumns == {"battery_life", "battery_life_spec", "charging_time"}

ListColumns == {"suitable_surfaces", "features", "smart_home_ecosystem"}

\* a row of the file: the spec columns other than the capacity all hold the
\* text spec, the three time columns all hold the text time, the list columns
\* hold Carpet, the colour is White and 10 customers gave the rating 4.5
FileRow(product, price, capacity, spec, time) ==
    [c \in important_columns |->
        CASE c = "product_name" -> <<product>>
          [] c = "price" -> price
          [] c = "rating" -> <<"4", ".", "5">>
          [] c = "rating_count" -> <<"1", "0">>
          [] c = "Battery properties  Capacity" -> capacity
          [] column_rename[c] \in TimeColumns -> time
          [] column_rename[c] \in ListColumns -> T_Carpet
          [] c = "Colour  Colour" -> T_White
          [] c = "Colour  Exact colour description" -> <<>>
          [] OTHER -> spec]

Products == {"ModelX", "Aeco Vacubot X3", "Mova P50 Pro Ultra"}

PriceTexts ==
    { <<>>,
      T_199_5,
      <<"4", "0", "0", "0">>,
      <<"1", "4", "4", "0", "0", ".", "5">>,
      <<"9", "9", "9", "9", "9", "9", "9">> }

CapacityTexts ==
    { <<>>,
      T_5200mAh,
      <<"5", "2", "0", "0", "0", "m", "A", "h">>,
      <<"5", "0", "0", " ", "m", "A", "h">>,
      <<"t", "b", "d">> }

SpecTexts ==
    { <<>>,
      <<"2", ".", "2", " ", "c", "m">>,
      <<"t", "b", "d">> }

TimeTexts ==
    { <<>>,
      <<"9", "0">>,
      <<"a", "b", "c", " ", "m", "i", "n">>,
      <<"1", " ", "h", " ", "3", "0", " ", "m", "i", "n">>,
      <<"2", " ", "h", "o", "u", "r", "s">> }

FileRows ==
    {FileRow(p, price, T_5200mAh, T_65dB, T_45min) :
        p \in {"ModelX", "Aeco Vacubot X3"}, price \in PriceTexts}
    \cup {FileRow(p, T_199_5, capacity, T_65dB, T_45min) :
        p \in {"ModelX", "Mova P50 Pro Ultra"}, capacity \in CapacityTexts}
    \cup {FileRow("ModelX", price, T_5200mAh, T_65dB, T_45min) :
        price \in {<<"a", "b", "c">>, <<"1", ",", "2", "9", "9">>}}
    \cup {FileRow("ModelX", T_199_5, T_5200mAh, spec, T_45min) :
        spec \in SpecTexts}
    \cup {FileRow("ModelX", T_199_5, T_5200mAh, T_65dB, time) :
        time \in TimeTexts}

\* a row of the file that differs from the row of ModelX at 199.5 in the
\* price, the text of the three list columns and the two colour texts
ListRow(price, lists, basic, exact) ==
    [c \in important_columns |->
        CASE c = "price" -> price
          [] column_rename[c] \in ListColumns -> lists
          [] c = "Colour  Colour" -> basic
          [] c = "Colour  Exact colour description" -> exact
          [] OTHER -> FileRow("ModelX", T_199_5, T_5200mAh, T_65dB, T_45min)[c]]

T_Tile == <<"T", "i", "l", "e">>
T_White_Black == T_White \o <<",", " ">> \o T_Black

\* rows of one product name: the same row written in two ways, a second
\* price, repeated tokens, and colours to merge
ListRows ==
    { ListRow(T_199_5, T_Carpet, T_White, <<>>),
      ListRow(T_199_5, <<" ">> \o T_Carpet \o <<",">>, <<>>, T_White),
      ListRow(<<"2", "5", "0">>, T_Carpet, T_White, <<>>),
      ListRow(T_199_5, T_Carpet \o <<",", " ">> \o T_Carpet,
              T_White_Black, T_Black),
      ListRow(T_199_5, <<>>, T_White \o <<",", " ">> \o T_White, <<>>),
      ListRow(T_199_5, T_Tile \o <<",">> \o T_Carpet, T_White, T_Black) }

\* a row of the file that differs from the row of ModelX at 199.5 in the
\* rating and the number of ratings
RatingRow(rating, rating_count) ==
    [c \in important_columns |->
        CASE c = "rating" -> rating
          [] c = "rating_count" -> rating_count
          [] OTHER -> FileRow("ModelX", T_199_5, T_5200mAh, T_65dB, T_45min)[c]]

RatingTexts == {<<>>, <<"0">>, <<"5">>, <<"7", ".", "5">>, <<"-", "1">>}
RatingCountTexts == {<<>>, <<"0">>, <<"1", "2">>, <<"2", ".", "5">>, <<"-", "3">>}
RatingRows ==
    {RatingRow(rating, rating_count) :
        rating \in RatingTexts, rating_count \in RatingCountTexts}

Restrict(row, columns) == [c \in columns |-> row[c]]

\* files with every required column, and files that lack one of them
Files ==
    {[header |-> important_columns, rows |-> rows] :
        rows \in UNION {[1..n -> FileRows] : n \in 1..MaxRows}}
    \cup {[header |-> important_columns, rows |-> rows] :
        rows \in UNION {[1..n -> ListRows] : n \in 1..MaxListRows}}
    \cup {[header |-> important_columns, rows |-> <<row>>] : row \in RatingRows}
    \cup {[header |-> important_columns \ {c},
           rows |-> <<Restrict(FileRow("ModelX", T_199_5, T_5200mAh, T_65dB,
                                       T_45min), important_columns \ {c})>>] :
            c \in {"price", "Battery properties  Capacity"}}

Init ==
    /\ fn = "none"
    /\ arg = None
    /\ arg_row = NoColours
    /\ ret = None
    /\ pc = "start"
    /\ err = "none"
    /\ csv \in Files
    /\ verbose \in BOOLEAN
    /\ df = EmptyTable
    /\ df_cleaned = EmptyTable
    /\ df_to_save = EmptyTable
    /\ out_file = NoFile
    /\ printed = 0 - 1
    /\ NoSession
    /\ NoCrawl

Next ==
    \/ ReadCsv
    \/ SelectColumns
    \/ ApplyPriceCorrections
    \/ ExtractSpecs
    \/ ApplyBatteryCorrections
    \/ ValidateBattery
    \/ ExtractSizes
    \/ ExtractTimes
    \/ CleanLists
    \/ MergeColours
    \/ ValidatePrice
    \/ DropInvalidPrices
    \/ ListsToStrings
    \/ DropDuplicates
    \/ ResetIndex
    \/ SaveCsv
    \/ PrintAndReturn

Spec == Init /\ [][Next]_vars

---------------------------------------------------------------------------
(* The cleaned file read back: DataFrame.to_csv, then pd.read_csv *)

Digit(k) == <<"0", "1", "2", "3", "4", "5", "6", "7", "8", "9">>[k + 1]

\* str(k) for a whole number k >= 0
RECURSIVE IntDigits(_)
IntDigits(k) ==
    IF k < 10 THEN <<Digit(k)>>
    ELSE IntDigits(k \div 10) \o <<Digit(k % 10)>>

\* the digits after the point of frac / d, d a power of ten
RECURSIVE FractionDigits(_, _)
FractionDigits(frac, d) ==
    IF d = 1 THEN <<>>
    ELSE FractionDigits(frac \div 10, d \div 10) \o <<Digit(frac % 10)>>

\* repr() of a float below 1e16: 199.5, 5200.0, -1.0
repr(x) ==
    LET a == IF x.n < 0 THEN 0 - x.n ELSE x.n
    IN  (IF x.n < 0 THEN <<"-">> ELSE <<>>)
        \o IntDigits(a \div x.d) \o <<".">>
        \o (IF x.d = 1 THEN <<"0">> ELSE FractionDigits(a % x.d, x.d))

\* the text to_csv writes for a cell: nothing for NaN, repr for a number (a
\* column of dtype int64 is written without the ".0", which reads back as
\* the same number)
to_csv_cell(cell) ==
    IF isna(cell) THEN <<>>
    ELSE IF isnum(cell) THEN repr(cell)
    ELSE cell.s

\* df_to_save.to_csv(output_file, index=False), as the text of the file
to_csv(rows) ==
    [header |-> output_columns,
     rows |-> [i \in 1..Len(rows) |->
                 [c \in output_columns |-> to_csv_cell(rows[i][c])]]]

\* pd.read_csv of the cleaned file
read_cleaned == read_csv(to_csv(out_file.rows))
exists == out_file.written > 0

---------------------------------------------------------------------------
(* The callers of clean_data: process_data, get_cleaned_data,              *)
(* run_eda_analysis, load_old and load_new.  pc is "ready" between two     *)
(* calls; a call that cleans goes through the statements of clean_data.    *)

MaxWrites == 2         \* writes of the cleaned file
MaxReportTexts == 2    \* texts in the report file

Locals == <<err, verbose, df, df_cleaned, df_to_save, printed>>

\* clean_data is entered: its locals are fresh
EnterCleanData(v) ==
    /\ out_file.written < MaxWrites
    /\ pc' = "start"
    /\ verbose' = v
    /\ err' = "none"
    /\ df' = EmptyTable
    /\ df_cleaned' = EmptyTable
    /\ df_to_save' = EmptyTable
    /\ printed' = 0 - 1
    /\ ret' = None

\* the call is over: its locals are gone
Return(value) ==
    /\ pc' = "ready"
    /\ ret' = value
    /\ err' = "none"
    /\ df' = EmptyTable
    /\ df_cleaned' = EmptyTable
    /\ df_to_save' = EmptyTable
    /\ UNCHANGED <<verbose, printed>>

\* raw files of one row: two that clean to different tables, one whose only
\* row loses its price, one without the price column
UseFiles ==
    {[header |-> important_columns, rows |-> <<r>>] :
        r \in { ListRow(T_199_5, T_Carpet, T_White, <<>>),
                ListRow(<<"2", "5", "0">>, T_Carpet, T_White_Black, T_Black),
                ListRow(<<"9", "9", "9", "9", "9", "9", "9">>, T_Carpet,
                        T_White, <<>>) }}
    \cup {[header |-> important_columns \ {"price"},
           rows |-> <<Restrict(ListRow(T_199_5, T_Carpet, T_White, <<>>),
                               important_columns \ {"price"})>>]}

\* CIP_crawling.data_to_csv(data, save=True): a new raw file replaces
\* robot_vacuums.csv
DataToCsv ==
    /\ pc = "ready"
    /\ fn' = "data_to_csv"
    /\ csv' \in UseFiles \ {csv}
    /\ UNCHANGED <<arg, arg_row, ret, pc, Locals, out_file, Session, Crawler>>

\* process_data, line 470
CallProcessData ==
    /\ pc = "ready"
    /\ fn' = "process_data"
    /\ \E v \in BOOLEAN : EnterCleanData(v)
    /\ UNCHANGED <<arg, arg_row, csv, out_file, Session, Crawler>>

\* pd.cut(price, bins=[0, 200, 500, 1000, inf], labels=price_labels)
price_category(price) ==
    IF ~isnum(price) \/ ~Gt(price, 0) THEN NaN
    ELSE IF ~Gt(price, 200) THEN Str(<<"Budget (< $200)">>)
    ELSE IF ~Gt(price, 500) THEN Str(<<"Mid-range ($200-$500)">>)
    ELSE IF ~Gt(price, 1000) THEN Str(<<"Premium ($500-$1000)">>)
    ELSE Str(<<"Luxury (> $1000)">>)

\* line 383: the column price_category is set on the table passed
with_price_category(frame) ==
    [frame EXCEPT !.data =
        [i \in 1..Len(frame.data) |->
            [c \in DOMAIN frame.data[i] \cup {"price_category"} |->
                IF c = "price_category"
                THEN price_category(frame.data[i]["price"])
                ELSE frame.data[i][c]]]]

\* the text one call writes: who wrote it, about how many models
Text(writer, models) == [writer |-> writer, models |-> models]

\* open(output_file, 'w'): the text replaces what the file holds
overwritten(file, text) == <<text>>
\* the text written in place of what the file holds, where it is to go after
not_appended(file, text) == <<text>>
\* open(output_file, 'a'): the text goes after what the file holds
appended(file, text) == file \o <<text>>

\* process_data, lines 473-476, with generate_report (lines 341-450) called
\* on the table clean_data returned.  On an empty table the percentage at
\* line 386 divides by len(df_cleaned) = 0, after line 383 and before the
\* file is opened.
GenerateReport ==
    /\ pc = "done"
    /\ fn = "process_data"
    /\ IF df_to_save.data = <<>>
       THEN /\ Return(Raise("ZeroDivisionError"))
            /\ UNCHANGED report_file
       ELSE LET report == Text("generate_report", Len(df_to_save.data))
            IN  /\ report_file' = overwritten(report_file, report)
                /\ Return([original_df |-> df,
                           cleaned_df |-> with_price_category(df_to_save),
                           report |-> report])
    /\ UNCHANGED <<fn, arg, arg_row, csv, out_file, force_clean, print_i,
                   Crawler>>

\* an exception of clean_data goes through its caller
RaiseToCaller ==
    /\ pc = "aborted"
    /\ fn \in {"process_data", "get_cleaned_data"}
    /\ Return(Raise(err))
    /\ UNCHANGED <<fn, arg, arg_row, csv, out_file, Session, Crawler>>

\* get_cleaned_data cleaning the input whatever cleaned file there is
CallGetCleanedDataUncached ==
    /\ pc = "ready"
    /\ fn' = "get_cleaned_data"
    /\ \E f \in BOOLEAN : force_clean' = f /\ EnterCleanData(FALSE)
    /\ UNCHANGED <<arg, arg_row, csv, out_file, report_file, print_i, Crawler>>

\* get_cleaned_data, lines 493-498
CallGetCleanedData ==
    /\ pc = "ready"
    /\ fn' = "get_cleaned_data"
    /\ \E f \in BOOLEAN :
          /\ force_clean' = f
          /\ IF exists /\ ~f
             THEN /\ ret' = read_cleaned
                  /\ UNCHANGED <<pc, Locals>>
             ELSE EnterCleanData(FALSE)
    /\ UNCHANGED <<arg, arg_row, csv, out_file, report_file, print_i, Crawler>>

\* get_cleaned_data, lines 498-500
ReturnCleanedData ==
    /\ pc = "done"
    /\ fn = "get_cleaned_data"
    /\ Return(df_to_save)
    /\ UNCHANGED <<fn, arg, arg_row, csv, out_file, Session, Crawler>>

\* run_eda_analysis: the cleaned file is read (line 446) and the detailed
\* summary is saved (line 469, save_detailed_summary lines 409-422); the
\* plots and the derived columns of the table returned are left out
RunEdaAnalysis ==
    /\ pc = "ready"
    /\ Len(report_file) < MaxReportTexts
    /\ fn' = "run_eda_analysis"
    /\ IF exists
       THEN /\ report_file' =
                 appended(report_file,
                          Text("save_detailed_summary", Len(out_file.rows)))
            /\ ret' = read_cleaned
       ELSE /\ ret' = Raise("FileNotFoundError")
            /\ UNCHANGED report_file
    /\ UNCHANGED <<arg, arg_row, pc, Locals, csv, out_file, force_clean,
                   print_i, Crawler>>

\* CIP_analysis.load_old, lines 7-25: return df is inside if print_i
load_old(file, print) == IF print THEN read_csv(file) ELSE None
\* CIP_analysis.load_new, lines 28-46
load_new(file, print) == read_csv(file)

LoadOld ==
    /\ pc = "ready"
    /\ fn' = "load_old"
    /\ \E p \in BOOLEAN : print_i' = p /\ ret' = load_old(csv, p)
    /\ UNCHANGED <<arg, arg_row, pc, Locals, csv, out_file, report_file,
                   force_clean, Crawler>>

LoadNew ==
    /\ pc = "ready"
    /\ fn' = "load_new"
    /\ \E p \in BOOLEAN :
          /\ print_i' = p
          /\ ret' = IF exists THEN load_new(to_csv(out_file.rows), p)
                    ELSE Raise("FileNotFoundError")
    /\ UNCHANGED <<arg, arg_row, pc, Locals, csv, out_file, report_file,
                   force_clean, Crawler>>

\* the script is about to call; the raw file is one of files
Ready(files) ==
    /\ fn = "main"
    /\ arg = None
    /\ arg_row = NoColours
    /\ ret = None
    /\ pc = "ready"
    /\ err = "none"
    /\ csv \in files
    /\ verbose = FALSE
    /\ df = EmptyTable
    /\ df_cleaned = EmptyTable
    /\ df_to_save = EmptyTable
    /\ out_file = NoFile
    /\ printed = 0 - 1
    /\ NoSession
    /\ NoCrawl

InitUse == Ready(UseFiles)

NextUse ==
    \/ DataToCsv
    \/ CallProcessData
    \/ GenerateReport
    \/ RaiseToCaller
    \/ CallGetCleanedData
    \/ ReturnCleanedData
    \/ RunEdaAnalysis
    \/ LoadOld
    \/ LoadNew
    \/ Next

SpecUse == InitUse /\ [][NextUse]_vars

---------------------------------------------------------------------------
(* CIP_crawling.crawl_for_product_data(urls): the loop over the product    *)
(* pages, one iteration at a time.  A page is what the XPath queries and   *)
(* the tables give: loads is false when the page could not be fetched or   *)
(* has no name or no price, rating_count is None when the page shows no    *)
(* rating.  A dict is a function from its keys.                            *)

MaxPages == 3    \* pages to scrape

PageNames == {"A", "B"}
PagePrices == {100, 200}
PageRatingCounts == {Whole(7), Whole(9), None}

NoPage == [loads |-> FALSE, name |-> "", price |-> 0, rating_count |-> None]
Pages ==
    {NoPage}
    \cup {[loads |-> TRUE, name |-> name, price |-> price,
           rating_count |-> count] :
            name \in PageNames, price \in PagePrices,
            count \in PageRatingCounts}

\* str() of a float that holds a whole number: 100.0
str(price) == ToString(price) \o ".0"
\* the rating shown with a rating count, None on a page without ratings
rating_of(page) == IF page.rating_count = None THEN None ELSE Num(45, 10)
\* the rows of the specification tables, as table name + two blanks + key
tables_of(page) == [k \in {"Model  Model name"} |-> page.name]

\* d[key] = value
set(d, key, value) ==
    [k \in DOMAIN d \cup {key} |-> IF k = key THEN value ELSE d[k]]
\* d.pop(key)
pop(d, key) == [k \in DOMAIN d \ {key} |-> d[k]]
\* d.update(other)
update(d, other) ==
    [k \in DOMAIN d \cup DOMAIN other |->
        IF k \in DOMAIN other THEN other[k] ELSE d[k]]

\* lines 153-162: the key the page's entry is made under, and the dict with
\* the empty entry in it
key_of(d, page) ==
    IF page.name \notin DOMAIN d THEN page.name
    ELSE page.name \o "_" \o str(page.price)
with_entry(d, page) ==
    IF page.name \notin DOMAIN d THEN set(d, page.name, <<>>)
    ELSE LET old == d[page.name]
             renamed == page.name \o "_" \o str(old["price"])
         IN  set(pop(set(d, renamed, old), page.name), key_of(d, page), <<>>)

\* one iteration of the loop, lines 126-220.  An exception anywhere in the
\* body ends the iteration (line 216) with the dict as it stands.
ScrapePage ==
    /\ url_index < Len(urls)
    /\ url_index' = url_index + 1
    /\ LET page == urls[url_index + 1]
           key == key_of(crawl_data, page)
           d == with_entry(crawl_data, page)
           rated == update(d[key], [price |-> page.price,
                                    rating |-> rating_of(page)])
           counted == update(rated, [rating_count |-> rating_count_int'])
       IN  IF ~page.loads
           THEN UNCHANGED <<crawl_data, rating_count_int>>
           ELSE /\ rating_count_int' =
                     IF page.rating_count = None THEN rating_count_int
                     ELSE page.rating_count
                /\ crawl_data' =
                     IF rating_count_int' = Unbound THEN set(d, key, rated)
                     ELSE set(d, key, update(counted, tables_of(page)))
    /\ UNCHANGED <<Harness, pc, err, csv, verbose, df, df_cleaned, df_to_save,
                   out_file, printed, Session, urls>>

InitCrawl ==
    /\ fn = "crawl_for_product_data"
    /\ arg = None
    /\ arg_row = NoColours
    /\ ret = None
    /\ pc = "idle"
    /\ err = "none"
    /\ csv = [header |-> {}, rows |-> <<>>]
    /\ verbose = FALSE
    /\ df = EmptyTable
    /\ df_cleaned = EmptyTable
    /\ df_to_save = EmptyTable
    /\ out_file = NoFile
    /\ printed = 0 - 1
    /\ NoSession
    /\ urls \in UNION {[1..n -> Pages] : n \in 1..MaxPages}
    /\ url_index = 0
    /\ crawl_data = <<>>
    /\ rating_count_int = Unbound

NextCrawl == ScrapePage

SpecCrawl == InitCrawl /\ [][NextCrawl]_vars

---------------------------------------------------------------------------
(* Repetition: a cell-level function applied to its own result, and        *)
(* process_data called again and again on one raw file                     *)

RepeatFiles ==
    UseFiles
    \cup {[header |-> important_columns, rows |-> rows] :
            rows \in UNION {[1..n -> ListRows] : n \in 1..MaxListRows}}

InitRepeat == InitFn \/ Ready(RepeatFiles)

NextRepeat ==
    \/ NextFn
    \/ CallProcessData
    \/ GenerateReport
    \/ RaiseToCaller
    \/ Next

SpecRepeat == InitRepeat /\ [][NextRepeat]_vars

---------------------------------------------------------------------------
(* Claims about the cell-level functions, checked under SpecFn *)

InPrice(x) == Between(MIN_PRICE, x, MAX_PRICE)
InCapacity(x) == Between(MIN_CAPACITY, x, MAX_CAPACITY)
PriceCalled == fn = "validate_price" /\ isnum(arg)

\* the result the divisor rule gives: price/10 if in range, otherwise
\* price/100 if in range, otherwise absent
TenThenHundred(x) ==
    IF InPrice(Div(x, 10)) THEN Div(x, 10)
    ELSE IF InPrice(Div(x, 100)) THEN Div(x, 100)
    ELSE NaN

\* C2 as stated: for every raw price greater than MAX_PRICE, validate_price
\* returns price/10 if that is in [50, 3000], otherwise price/100 if that is in
\* [50, 3000], otherwise absent.
C2_EveryPriceOverMaxIsDivided ==
    (PriceCalled /\ Gt(arg, MAX_PRICE)) => ret = TenThenHundred(arg)

\* C2 amended: the divisor rule applies to every raw price greater than 5000;
\* a raw price greater than MAX_PRICE and at most 5000 is made absent, no
\* division being tried.
C2_PriceOver5000IsDivided ==
    /\ (PriceCalled /\ Gt(arg, 5000)) => ret = TenThenHundred(arg)
    /\ (PriceCalled /\ Gt(arg, MAX_PRICE) /\ ~Gt(arg, 5000)) => ret = NaN

C2_Witness ==
    /\ PriceCalled /\ Gt(arg, 5000)
    /\ ~InPrice(Div(arg, 10))
    /\ ret = Div(arg, 100)

BothQuotientsInRange(x) == InPrice(Div(x, 10)) /\ InPrice(Div(x, 100))

\* C3 as stated: whenever a price over MAX_PRICE has both price/10 and
\* price/100 inside [50, 3000], validate_price returns price/10.
C3_TenBeforeHundredOverMax ==
    (PriceCalled /\ Gt(arg, MAX_PRICE) /\ BothQuotientsInRange(arg))
        => ret = Div(arg, 10)

\* C3 amended: whenever a price greater than 5000 has both price/10 and
\* price/100 inside [50, 3000], validate_price returns price/10 (14400.50
\* gives 1440.05); the price 5000 itself, whose two quotients 500 and 50 are
\* both in range, is made absent.
C3_TenBeforeHundredOver5000 ==
    /\ (PriceCalled /\ Gt(arg, 5000) /\ BothQuotientsInRange(arg))
            => ret = Div(arg, 10)
    /\ (PriceCalled /\ arg = Whole(5000)) => ret = NaN

C3_Witness ==
    /\ PriceCalled /\ arg = Num(1440050, 100)
    /\ BothQuotientsInRange(arg)
    /\ ret = Num(144005, 100)

\* C4: for every capacity greater than MAX_CAPACITY, validate_battery_capacity
\* returns the quotient by the first of 1000, 100, 10, in that order, that is
\* inside [1000, 10000], and absent when no quotient is in range.
C4_BatteryDivisorOrder ==
    (fn = "validate_battery_capacity" /\ isnum(arg) /\ Gt(arg, MAX_CAPACITY))
        => ret = IF InCapacity(Div(arg, 1000)) THEN Div(arg, 1000)
                 ELSE IF InCapacity(Div(arg, 100)) THEN Div(arg, 100)
                 ELSE IF InCapacity(Div(arg, 10)) THEN Div(arg, 10)
                 ELSE NaN

\* 100000: both 100 and 10 give a quotient in range, the larger divisor wins
C4_Witness ==
    /\ fn = "validate_battery_capacity"
    /\ arg = Whole(100000)
    /\ InCapacity(Div(arg, 100)) /\ InCapacity(Div(arg, 10))
    /\ ret = Whole(1000)

\* the text before the first "min" of a text that contains "min"
BeforeMin(s) == SubSeq(s, 1, find(s, <<"m", "i", "n">>) - 1)
HasMin(s) == find(s, <<"m", "i", "n">>) # 0

\* C9: extract_minutes returns a numeric input unchanged, the number preceding
\* "min" for a text containing "min", and absent for a present text that has
\* no "min" token or no number before it.
C9_ExtractMinutesAbsentWhenUnparseable ==
    fn = "extract_minutes" =>
        /\ isnum(arg) => ret = arg
        /\ (isstr(arg) /\ HasMin(arg.s) /\ isnum(float(BeforeMin(arg.s))))
                => ret = float(BeforeMin(arg.s))
        /\ (isstr(arg) /\ HasMin(arg.s) /\ ~isnum(float(BeforeMin(arg.s))))
                => ret = NaN
        /\ (isstr(arg) /\ arg.s # <<>> /\ ~HasMin(arg.s)) => ret = NaN

\* the set of the members of a list
Members(list) == {list[i] : i \in 1..Len(list)}
\* the k-th smallest member of a finite set of integers
Nth(S, k) == CHOOSE i \in S : Cardinality({j \in S : j <= i}) = k

\* the pieces of a text between its commas, by position: piece k runs from
\* after comma k - 1 to before comma k
Commas(s) == {i \in 1..Len(s) : s[i] = ","}
Piece(s, k) ==
    SubSeq(s,
           IF k = 1 THEN 1 ELSE Nth(Commas(s), k - 1) + 1,
           IF k = Cardinality(Commas(s)) + 1 THEN Len(s)
           ELSE Nth(Commas(s), k) - 1)
\* a text from its first to its last non-blank character
Trimmed(s) ==
    LET solid == {i \in 1..Len(s) : s[i] # " "}
    IN  IF solid = {} THEN <<>>
        ELSE SubSeq(s, Nth(solid, 1), Nth(solid, Cardinality(solid)))
\* the pieces that have a non-blank character
TokenPieces(s) ==
    {k \in 1..(Cardinality(Commas(s)) + 1) : Trimmed(Piece(s, k)) # <<>>}

Empty(colour) == isna(colour) \/ colour = Str(<<>>)
MergeCalled == fn = "merge_colours"
BothColours ==
    /\ isstr(arg_row["color_basic"]) /\ ~Empty(arg_row["color_basic"])
    /\ isstr(arg_row["color_exact"]) /\ ~Empty(arg_row["color_exact"])
\* the trimmed tokens of a colour text
ColourTokens(colour) ==
    {Trimmed(Piece(colour.s, k)) : k \in TokenPieces(colour.s)}

\* a colour text of tokens separated by a comma or by a comma and one blank:
\* no piece is empty, and the only blanks at the ends of a piece are single
\* ones after a comma
Separated(colour) ==
    \A k \in 1..(Cardinality(Commas(colour.s)) + 1) :
        LET piece == Piece(colour.s, k)
        IN  /\ Trimmed(piece) # <<>>
            /\ \/ piece = Trimmed(piece)
               \/ k > 1 /\ piece = <<" ">> \o Trimmed(piece)

\* C14: merge_colours with both fields non-empty and different returns the
\* distinct trimmed comma-separated tokens of both fields, each once, in
\* case-sensitive alphabetical order and joined by ", ", whether or not a
\* blank follows the commas of the inputs.
C14_MergeIsSortedUnionOfTokens ==
    (/\ MergeCalled
     /\ BothColours
     /\ Separated(arg_row["color_basic"])
     /\ Separated(arg_row["color_exact"])
     /\ arg_row["color_basic"] # arg_row["color_exact"])
        => ret = Str(join(<<",", " ">>,
                          sorted(ColourTokens(arg_row["color_basic"])
                                 \cup ColourTokens(arg_row["color_exact"]))))

\* C15: merge_colours returns the other field unchanged when one field is
\* empty or absent, the common value when the two are equal, and the empty
\* text when both are empty or absent.
C15_MergePrefersNonEmpty ==
    MergeCalled =>
        LET color1 == arg_row["color_basic"]
            color2 == arg_row["color_exact"]
        IN  /\ (Empty(color1) /\ Empty(color2)) => ret = Str(<<>>)
            /\ (Empty(color1) /\ ~Empty(color2)) => ret = color2
            /\ (~Empty(color1) /\ Empty(color2)) => ret = color1
            /\ (~Empty(color1) /\ color1 = color2) => ret = color1

C15_Witness ==
    /\ MergeCalled
    /\ arg_row["color_basic"] = Str(T_White)
    /\ arg_row["color_exact"] = Str(<<>>)
    /\ ret = Str(T_White)

Given == IF isstr(arg) THEN float(replace(arg.s, ",")) ELSE arg
Lt(x, k) == x.n < k * x.d

\* C29: validate_price returns every price already inside [50, 3000] as it
\* is, and validate_battery_capacity every capacity already inside
\* [1000, 10000] as it is; a value under the minimum is never scaled up, it
\* becomes absent.
C29_InRangeUnchangedBelowMinimumAbsent ==
    /\ (fn = "validate_price" /\ isnum(Given) /\ InPrice(Given))
            => ret = Given
    /\ (fn = "validate_price" /\ isnum(Given) /\ Lt(Given, MIN_PRICE))
            => ret = NaN
    /\ (fn = "validate_battery_capacity" /\ isnum(Given)
            /\ InCapacity(Given)) => ret = Given
    /\ (fn = "validate_battery_capacity" /\ isnum(Given)
            /\ Lt(Given, MIN_CAPACITY)) => ret = NaN

\* 30 would be 300 after a scaling by ten, and is made absent
C29_Witness ==
    /\ fn = "validate_price"
    /\ arg = Whole(30)
    /\ InPrice(Norm(arg.n * 10, arg.d))
    /\ ret = NaN

---------------------------------------------------------------------------
(* Claims about clean_data, checked under Spec *)

Written == out_file.written > 0
Rows(frame) == 1..Len(frame.data)
\* the row of the input table that the k-th row of df_cleaned comes from
RawOf(k) == df.data[df_cleaned.index[k] + 1]
Kept(i) == \E k \in Rows(df_cleaned) : df_cleaned.index[k] = i - 1
AfterDropna ==
    pc \in {"to_strings", "drop_duplicates", "reset_index", "to_csv",
            "report", "done"}

\* the price of an input row after the override table and the range
\* correction have been applied to it
CorrectedPrice(row) ==
    validate_price(IF named_in(row, price_corrections)
                   THEN price_corrections[product_of(row)]
                   ELSE row["price"])

\* C1: in the table clean_data writes, every row has a price within
\* [50, 3000] and a battery_capacity that is absent or within [1000, 10000].
C1_OutputWithinBounds ==
    Written =>
        \A k \in 1..Len(out_file.rows) :
            LET row == out_file.rows[k]
            IN  /\ isnum(row["price"]) /\ InPrice(row["price"])
                /\ \/ isna(row["battery_capacity"])
                   \/ /\ isnum(row["battery_capacity"])
                      /\ InCapacity(row["battery_capacity"])

\* a saved table with a price corrected by division and an uncorrectable
\* capacity made absent
C1_Witness ==
    /\ pc = "done"
    /\ \E k \in 1..Len(out_file.rows) :
            out_file.rows[k]["price"] = Num(144005, 100)
    /\ \E i \in Rows(df) : df.data[i]["price"] = Num(144005, 10)
    /\ \E k \in Rows(df_cleaned) :
            /\ RawOf(k)["Battery properties  Capacity"]
                    = Str(<<"5", "0", "0", " ", "m", "A", "h">>)
            /\ isna(df_cleaned.data[k]["battery_capacity"])

\* C5, the result: a row named in the price table is retained with the
\* table's price, a row named in the battery table has the table's capacity
C5_Result ==
    pc = "done" =>
        /\ \A i \in Rows(df) :
              named_in(df.data[i], price_corrections) =>
                 \E k \in Rows(df_cleaned) :
                    /\ df_cleaned.index[k] = i - 1
                    /\ df_cleaned.data[k]["price"]
                          = price_corrections[product_of(df.data[i])]
                    /\ \E m \in 1..Len(out_file.rows) :
                          out_file.rows[m]
                             = lists_to_strings(df_cleaned.data[k])
        /\ \A m \in 1..Len(out_file.rows) :
              named_in(out_file.rows[m], battery_corrections) =>
                 out_file.rows[m]["battery_capacity"]
                    = battery_corrections[product_of(out_file.rows[m])]

\* C5, the override steps: each sets the table value in the rows it names and
\* leaves every other row as it was
C5_Step(at, column, corrections) ==
    pc = at =>
        \A k \in Rows(df_cleaned) :
            IF named_in(df_cleaned.data[k], corrections)
            THEN df_cleaned'.data[k][column]
                    = corrections[product_of(df_cleaned.data[k])]
            ELSE df_cleaned'.data[k] = df_cleaned.data[k]

\* C5: known-value overrides take precedence over general validation: a row
\* whose product_name is a key of the price table is retained with the table's
\* price whatever its raw price was, a row whose product_name is a key of the
\* battery table has the table's capacity whatever its raw capacity was, and
\* the override steps change no row whose name is not a key.
C5_OverridesTakePrecedence ==
    /\ []C5_Result
    /\ [][/\ C5_Step("price_corrections", "price", price_corrections)
          /\ C5_Step("battery_corrections", "battery_capacity",
                     battery_corrections)]_vars

\* a row named in the price table whose raw price is absent, saved with the
\* table's price, and a row named in the battery table whose raw capacity
\* is not the table's, saved with the table's capacity
C5_Witness ==
    /\ pc = "done"
    /\ \E k \in Rows(df_cleaned) :
          /\ named_in(RawOf(k), price_corrections)
          /\ isna(RawOf(k)["price"])
          /\ df_cleaned.data[k]["price"] = Num(9795, 10)
    /\ \E k \in Rows(df_cleaned) :
          /\ named_in(RawOf(k), battery_corrections)
          /\ RawOf(k)["Battery properties  Capacity"] = Str(<<"t", "b", "d">>)
          /\ df_cleaned.data[k]["battery_capacity"] = Whole(5200)

\* the labels, in input order, of the input rows from position i on whose
\* corrected price is present
RECURSIVE PricedLabels(_)
PricedLabels(i) ==
    IF i > Len(df.data) THEN <<>>
    ELSE (IF isna(CorrectedPrice(df.data[i])) THEN <<>> ELSE <<i - 1>>)
         \o PricedLabels(i + 1)

\* C6: apart from exact-duplicate removal, an input row is excluded from the
\* cleaned output if and only if its price is absent after override and range
\* correction; an absent battery_capacity or other field removes no row.
C6_OnlyAbsentPriceRemovesRow ==
    /\ AfterDropna => df_cleaned.index = PricedLabels(1)
    /\ Written =>
          {out_file.rows[m] : m \in 1..Len(out_file.rows)}
             = {lists_to_strings(df_cleaned.data[k]) :
                   k \in Rows(df_cleaned)}

\* one input row removed for its price, another saved although its capacity
\* cannot be corrected and is absent
C6_Witness ==
    /\ pc = "done"
    /\ \E i \in Rows(df) : ~Kept(i) /\ isna(CorrectedPrice(df.data[i]))
    /\ \E k \in Rows(df_cleaned) :
          /\ RawOf(k)["Battery properties  Capacity"]
                  = Str(<<"5", "0", "0", " ", "m", "A", "h">>)
          /\ isna(df_cleaned.data[k]["battery_capacity"])
          /\ \E m \in 1..Len(out_file.rows) :
                out_file.rows[m] = lists_to_strings(df_cleaned.data[k])

\* the raw price 9999999, read as a number or kept as text
Is9999999(cell) ==
    \/ cell = Whole(9999999)
    \/ cell = Str(<<"9", "9", "9", "9", "9", "9", "9">>)

UnparseableTime(cell) ==
    isstr(cell) /\ (~HasMin(cell.s) \/ ~isnum(float(BeforeMin(cell.s))))

\* C8: no malformed field aborts the run or removes its row: clean_data
\* completes on a table with an unparseable price or time text, and a row with
\* an unparseable time or spec text is kept with that field absent.
C8_MalformedFieldKeepsRow ==
    /\ err # "ValueError"
    /\ pc = "done" =>
          \A i \in Rows(df) : \A c \in TimeColumns :
              (UnparseableTime(df.data[i][source_column(c)])
                    /\ ~isna(CorrectedPrice(df.data[i])))
                 => \E k \in Rows(df_cleaned) :
                       /\ df_cleaned.index[k] = i - 1
                       /\ isna(df_cleaned.data[k][c])

\* the full numeric token of a text, decimal part included: the first run of
\* digits and, when a point and further digits follow it, these as well
NumericToken(cell) ==
    IF ~isstr(cell) \/ ~(\E i \in 1..Len(cell.s) : cell.s[i] \in Digits) THEN NaN
    ELSE LET s == cell.s
             i == CHOOSE a \in 1..Len(s) :
                    s[a] \in Digits /\ \A b \in 1..(a - 1) : s[b] \notin Digits
             k == DigitRun(s, i)
             f == IF i + k <= Len(s) /\ s[i + k] = "."
                  THEN DigitRun(s, i + k + 1) ELSE 0
         IN  Num(DigitsToInt(SubSeq(s, i, i + k - 1)
                             \o SubSeq(s, i + k + 1, i + k + f)), Pow10(f))

TokenKept(columns) ==
    \A k \in Rows(df_cleaned) : \A c \in columns :
        df_cleaned.data[k][c] = NumericToken(RawOf(k)[source_column(c)])

\* C10: for every unit-suffixed spec column the cleaned value is the full
\* numeric token of the raw text, decimal part included, and a text without a
\* numeric token gives absent.
C10_FullNumericToken ==
    /\ pc = "battery_corrections" =>
          TokenKept({"noise_level", "suction_power", "room_area",
                     "battery_capacity"})
    /\ pc \in {"extract_times", "clean_lists", "merge_colours",
               "validate_price", "dropna", "to_strings", "drop_duplicates",
               "reset_index", "to_csv", "report", "done"} =>
          TokenKept(SpecColumns)

\* the k-th row of df_cleaned as it is saved, its lists joined
Joined(k) == lists_to_strings(df_cleaned.data[k])
OutRows == 1..Len(out_file.rows)
\* the position in df_cleaned of the first row that is saved as r
FirstPos(r) == Nth({p \in Rows(df_cleaned) : Joined(p) = r}, 1)

\* C11: no two rows of the saved table are identical across all columns:
\* rows that agree in every output column after transformation give exactly
\* one saved row.
C11_NoIdenticalOutputRows ==
    Written =>
        /\ \A m \in OutRows : \A n \in OutRows :
              m # n => out_file.rows[m] # out_file.rows[n]
        /\ \A k \in Rows(df_cleaned) :
              Cardinality({m \in OutRows : out_file.rows[m] = Joined(k)}) = 1

\* two input rows written differently that agree in every output column
\* after transformation, saved as one row
C11_Witness ==
    /\ pc = "done"
    /\ Len(out_file.rows) = 1
    /\ \E k \in Rows(df_cleaned) : \E l \in Rows(df_cleaned) :
          /\ RawOf(k) # RawOf(l)
          /\ Joined(k) = Joined(l)

\* C12 as claimed: no two rows of the saved table share a product_name, even
\* when two input rows of that name differ in another column.
C12_ProductNameUnique ==
    Written =>
        \A m \in OutRows : \A n \in OutRows :
            m # n => out_file.rows[m]["product_name"]
                        # out_file.rows[n]["product_name"]

\* C12: a product_name may repeat in the saved table: every row that keeps
\* its price is saved whatever its name, and two saved rows of one name
\* differ in another column.
C12_SameNameRowsDifferElsewhere ==
    Written =>
        /\ \A k \in Rows(df_cleaned) :
              \E m \in OutRows : out_file.rows[m] = Joined(k)
        /\ \A m \in OutRows : \A n \in OutRows :
              (m # n /\ out_file.rows[m]["product_name"]
                          = out_file.rows[n]["product_name"])
                 => \E c \in output_columns \ {"product_name"} :
                       out_file.rows[m][c] # out_file.rows[n][c]

\* two saved rows of one name with different prices
C12_Witness ==
    /\ pc = "done"
    /\ \E m \in OutRows : \E n \in OutRows :
          /\ out_file.rows[m]["product_name"] = out_file.rows[n]["product_name"]
          /\ out_file.rows[m]["price"] # out_file.rows[n]["price"]

\* C13: the saved rows are in the input order of their first occurrences,
\* and of a group of duplicates the first row is the one kept.
C13_FirstOccurrenceOrder ==
    /\ pc = "reset_index" =>
          /\ \A k \in Rows(df_to_save) :
                df_to_save.index[k]
                   = df_cleaned.index[FirstPos(df_to_save.data[k])]
          /\ \A k \in Rows(df_to_save) : \A l \in Rows(df_to_save) :
                k < l => FirstPos(df_to_save.data[k])
                            < FirstPos(df_to_save.data[l])
          /\ \A p \in Rows(df_cleaned) :
                \E k \in Rows(df_to_save) : df_to_save.data[k] = Joined(p)
    /\ Written =>
          /\ \A m \in OutRows : \A n \in OutRows :
                m < n => FirstPos(out_file.rows[m]) < FirstPos(out_file.rows[n])
          /\ \A p \in Rows(df_cleaned) :
                \E m \in OutRows : out_file.rows[m] = Joined(p)

\* three rows kept for their price, the third a duplicate of the first: the
\* first and the second are saved, in this order
C13_Witness ==
    /\ pc = "done"
    /\ Len(df_cleaned.data) = 3
    /\ Joined(1) = Joined(3)
    /\ Joined(1) # Joined(2)
    /\ out_file.rows = <<Joined(1), Joined(2)>>

\* the trimmed non-empty pieces of a text between its commas, in order
TokensOf(s) ==
    [j \in 1..Cardinality(TokenPieces(s)) |->
        Trimmed(Piece(s, Nth(TokenPieces(s), j)))]
NoRepeat(tokens) ==
    \A i \in 1..Len(tokens) : \A j \in 1..Len(tokens) :
        i # j => tokens[i] # tokens[j]

\* C16: in every saved row no token appears more than once within features,
\* suitable_surfaces, smart_home_ecosystem or color, even when the raw text
\* repeats a token.
C16_NoRepeatedToken ==
    Written =>
        \A m \in OutRows :
            /\ \A c \in ListColumns :
                  NoRepeat(split(out_file.rows[m][c].s, <<"|">>))
            /\ NoRepeat(TokensOf(out_file.rows[m]["color"].s))

\* C18 as claimed: in the saved table features, suitable_surfaces,
\* smart_home_ecosystem and color are each the tokens of the field joined by
\* the pipe character, the empty text when there are none.
C18_AllFieldsPipeJoined ==
    Written =>
        \A m \in OutRows :
            LET raw == RawOf(FirstPos(out_file.rows[m]))
                colour == out_file.rows[m]["color"].s
            IN  /\ \A c \in ListColumns :
                      out_file.rows[m][c].s
                         = join(<<"|">>, TokensOf(raw[source_column(c)].s))
                /\ colour = join(<<"|">>, TokensOf(colour))

\* the colour text the two raw colour fields give: the field that is not
\* empty, or the distinct parts of both between ", ", sorted, joined by ", "
MergedColour(basic, exact) ==
    IF isna(basic) /\ isna(exact) THEN <<>>
    ELSE IF isna(basic) THEN exact.s
    ELSE IF isna(exact) \/ basic = exact THEN basic.s
    ELSE join(<<",", " ">>,
              sorted(Members(split(basic.s, <<",", " ">>))
                     \cup Members(split(exact.s, <<",", " ">>))))

\* C18: in the saved table features, suitable_surfaces and
\* smart_home_ecosystem are each the trimmed tokens of the raw text joined by
\* the pipe character, the empty text when there are none; color is the
\* merged colour text, its colours joined by ", " and not by the pipe.
C18_ListsPipeJoinedColourCommaJoined ==
    Written =>
        \A m \in OutRows :
            LET raw == RawOf(FirstPos(out_file.rows[m]))
            IN  /\ \A c \in ListColumns :
                      out_file.rows[m][c]
                         = Str(join(<<"|">>, TokensOf(raw[source_column(c)].s)))
                /\ out_file.rows[m]["color"]
                      = Str(MergedColour(raw[source_column("color_basic")],
                                         raw[source_column("color_exact")]))

\* a saved row with two tokens in a list field and two merged colours
C18_Witness ==
    /\ pc = "done"
    /\ \E m \in OutRows :
          /\ RawOf(FirstPos(out_file.rows[m]))[source_column("features")]
                = Str(T_Tile \o <<",">> \o T_Carpet)
          /\ out_file.rows[m]["features"] = Str(T_Tile \o <<"|">> \o T_Carpet)
          /\ out_file.rows[m]["suitable_surfaces"]
                = out_file.rows[m]["features"]
          /\ out_file.rows[m]["color"] = Str(T_Black \o <<",", " ">> \o T_White)

MissingColumn == ~(important_columns \subseteq csv.header)

\* C19: when a required source column is missing from the header of the
\* input, clean_data aborts with an error before any override, extraction or
\* validation step is applied to any row.
C19_MissingColumnAbortsFirst ==
    MissingColumn =>
        /\ pc \in {"start", "select", "aborted"}
        /\ pc = "aborted" => err = "KeyError"
        /\ df_cleaned = EmptyTable
        /\ df_to_save = EmptyTable
        /\ out_file = NoFile

\* a file of one row without its price column, read and then refused
C19_Witness ==
    /\ "price" \notin csv.header
    /\ Len(df.data) = 1
    /\ pc = "aborted"
    /\ err = "KeyError"

\* C20: the output file is written exactly once in a run, as the whole
\* table, after every transformation and the duplicate removal; a run that
\* aborts at an earlier step leaves the file as it was.
C20_NoPartialOutput ==
    /\ pc \in {"report", "done"} =>
          /\ out_file.written = 1
          /\ out_file.rows = df_to_save.data
          /\ df_to_save.index = [m \in OutRows |-> m - 1]
          /\ {out_file.rows[m] : m \in OutRows}
                = {Joined(k) : k \in Rows(df_cleaned)}
    /\ pc \notin {"report", "done"} => out_file = NoFile

\* a run aborted by a time text after the overrides and the spec extraction
\* were applied, with no file written
C20_Witness ==
    /\ pc = "aborted"
    /\ err = "ValueError"
    /\ df_cleaned.data # <<>>
    /\ \A k \in Rows(df_cleaned) : isnum(df_cleaned.data[k]["noise_level"])
    /\ out_file = NoFile

\* C23: every rating of the output file is absent or within [0, 5], and
\* every rating_count is absent or a non-negative whole number, whatever the
\* raw input table holds.
C23_RatingsWithinBounds ==
    Written =>
        \A m \in 1..Len(out_file.rows) :
            LET rating == out_file.rows[m]["rating"]
                rating_count == out_file.rows[m]["rating_count"]
            IN  /\ isna(rating) \/ (isnum(rating) /\ Between(0, rating, 5))
                /\ \/ isna(rating_count)
                   \/ /\ isnum(rating_count)
                      /\ rating_count.d = 1
                      /\ rating_count.n >= 0

---------------------------------------------------------------------------
(* Claims about the callers of clean_data, checked under SpecUse *)

\* clean_data as a function of the raw file alone: the table it saves, or
\* the exception that ends it
cleaned(file) ==
    LET raw == read_csv(file)
        d1 == [i \in 1..Len(raw.data) |-> select_rename(raw.data[i])]
        d2 == apply_corrections(d1, "price", price_corrections)
        d3 == extract_column(
                  extract_column(
                      extract_column(
                          extract_column(d2, "noise_level", "dec"),
                          "suction_power", "int"),
                      "room_area", "int"),
                  "battery_capacity", "int")
        d4 == apply_corrections(d3, "battery_capacity", battery_corrections)
        d5 == apply_column(d4, "battery_capacity",
                           "validate_battery_capacity")
        d6 == extract_column(
                  extract_column(
                      extract_column(
                          extract_column(d5, "height", "dec"),
                          "max_threshold", "int"),
                      "dust_capacity", "dec"),
                  "water_capacity", "dec")
        d7 == apply_column(
                  apply_column(
                      apply_column(d6, "battery_life", "extract_minutes"),
                      "battery_life_spec", "extract_minutes"),
                  "charging_time", "extract_minutes")
        d8 == clean_lists(
                  clean_lists(clean_lists(d7, "suitable_surfaces"),
                              "features"),
                  "smart_home_ecosystem")
        d9 == [i \in 1..Len(d8) |-> merge_row(d8[i])]
        d10 == apply_column(d9, "price", "validate_price")
        priced == dropna([index |-> raw.index, data |-> d10], {"price"})
        texts == [priced EXCEPT !.data =
                    [i \in 1..Len(priced.data) |->
                        lists_to_strings(priced.data[i])]]
    IN  IF ~(important_columns \subseteq file.header) THEN Raise("KeyError")
        ELSE IF str_accessor_fails(d2, {"noise_level", "suction_power",
                                        "room_area", "battery_capacity"})
             THEN Raise("AttributeError")
        ELSE IF apply_fails(d5) THEN Raise("ValueError")
        ELSE IF str_accessor_fails(d5, {"height", "max_threshold",
                                        "dust_capacity", "water_capacity"})
             THEN Raise("AttributeError")
        ELSE IF apply_fails(d7) THEN Raise("ValueError")
        ELSE IF apply_fails(d8)
             THEN Raise(exception_in(d8, <<"suitable_surfaces", "features",
                                          "smart_home_ecosystem">>))
        ELSE IF apply_fails(d9) THEN Raise("AttributeError")
        ELSE IF apply_fails(d10) THEN Raise("ValueError")
        ELSE reset_index(drop_duplicates(texts))

\* every run of clean_data that gets to its end has saved cleaned(csv)
SavedIsCleaned ==
    pc \in {"report", "done"} =>
        /\ df_to_save = cleaned(csv)
        /\ out_file.rows = cleaned(csv).data

\* every run of clean_data that is aborted ends with the exception of
\* cleaned(csv)
AbortedIsCleaned == pc = "aborted" => cleaned(csv) = Raise(err)

IsPrefix(s, t) == Len(s) <= Len(t) /\ SubSeq(t, 1, Len(s)) = s

\* C22 as stated: every step that writes the report file, generate_report
\* and save_detailed_summary alike, keeps what the file held as a prefix of
\* what it holds afterwards.
C22_ReportOnlyAppendedTo == [][IsPrefix(report_file, report_file')]_vars

\* C22 amended: save_detailed_summary appends its text to what the report
\* file holds; generate_report replaces what the file holds by its report;
\* nothing else writes the file.
C22_SummaryAppendedReportOverwritten ==
    [][report_file' # report_file =>
        \/ /\ fn' = "run_eda_analysis"
           /\ Len(report_file') = Len(report_file) + 1
           /\ IsPrefix(report_file, report_file')
           /\ report_file'[Len(report_file')].writer = "save_detailed_summary"
        \/ /\ fn' = "process_data"
           /\ Len(report_file') = 1
           /\ report_file'[1].writer = "generate_report"]_vars

\* the cleaned file was written twice, and the report file holds one report
\* with the summary of run_eda_analysis after it
C22_Witness ==
    /\ out_file.written = 2
    /\ fn = "run_eda_analysis"
    /\ Len(report_file) = 2
    /\ report_file[1].writer = "generate_report"
    /\ report_file[2].writer = "save_detailed_summary"

\* C24: no step of a call of get_cleaned_data, with either value of
\* force_clean and with or without a cleaned file, creates or changes a file.
C24_GetCleanedDataWritesNoFile ==
    [][fn' = "get_cleaned_data" => UNCHANGED <<csv, out_file, report_file>>]_vars

\* C25: load_old returns the table it read, for both values of print_i, as
\* load_new does.
C25_LoadOldReturnsTable ==
    fn = "load_old" => ret = load_new(csv, print_i)

IsTable(value) == "data" \in DOMAIN value
\* what cleaning the file gives: the table clean_data returns, that table as
\* it reads back from the file it is saved in, or the exception
Fresh(file) ==
    LET table == cleaned(file)
    IN  IF IsTable(table) THEN {table, read_csv(to_csv(table.data))}
        ELSE {table}

\* C28 as stated: whatever get_cleaned_data returns is the result of cleaning
\* the input file as it is at the call, whether force_clean is set or not and
\* whether a cleaned file exists or not.
C28_ReturnsCleanedInput ==
    (fn = "get_cleaned_data" /\ pc = "ready") => ret \in Fresh(csv)

\* C28 amended: with force_clean false and a cleaned file present,
\* get_cleaned_data returns that file as it reads back, without reading the
\* input; with force_clean true or no cleaned file, it runs clean_data and
\* returns the result of cleaning the input.
C28_CleanedFileReturnedUnlessForced ==
    [][vars' # vars =>
        /\ (pc = "ready" /\ fn' = "get_cleaned_data"
                /\ exists /\ ~force_clean')
              => (pc' = "ready" /\ ret' = read_cleaned /\ out_file' = out_file)
        /\ (pc = "ready" /\ fn' = "get_cleaned_data"
                /\ (~exists \/ force_clean'))
              => pc' = "start"
        /\ (fn = "get_cleaned_data" /\ pc \in {"done", "aborted"})
              => ret' = cleaned(csv)]_vars

\* the cleaned file of an earlier input is returned: the table differs from
\* what cleaning the input gives
C28_Witness ==
    /\ fn = "get_cleaned_data"
    /\ pc = "ready"
    /\ ~force_clean
    /\ ret = read_cleaned
    /\ ret \notin Fresh(csv)

IsTuple(value) == "cleaned_df" \in DOMAIN value

\* C30: the cleaned table process_data returns has the columns and values of
\* the table clean_data wrote to the output file, generate_report having left
\* it as it was, and the raw table returned is the input file as read.
C30_ReturnedTableIsSavedTable ==
    (fn = "process_data" /\ pc = "ready" /\ IsTuple(ret)) =>
        /\ ret.cleaned_df.data = out_file.rows
        /\ ret.original_df = read_csv(csv)

---------------------------------------------------------------------------
(* Claims about repetition, checked under SpecRepeat *)

\* a cell-level function applied to its own result gives that result again
FunctionsIdempotent ==
    /\ fn = "validate_price_twice" => ret = validate_price(arg)
    /\ fn = "validate_battery_capacity_twice"
            => ret = validate_battery_capacity(arg)
    /\ fn = "merge_colours_twice" => ret = merge_colours(arg_row)

\* a run of clean_data on the raw file of an earlier run writes the rows
\* the output file holds already
SecondRunWritesTheSame ==
    (out_file.written > 0 /\ out_file' # out_file)
        => out_file'.rows = out_file.rows

---------------------------------------------------------------------------
(* Claims about the crawler, checked under SpecCrawl *)

\* the pages gone through whose name and price were read
Scraped == {k \in 1..url_index : urls[k].loads}

\* C26: the dict holds one entry for each page scraped, whatever names and
\* prices the pages share: no entry is overwritten or lost on a collision of
\* names.
C26_OneEntryPerPage == Cardinality(DOMAIN crawl_data) = Cardinality(Scraped)

\* C27: a page without a rating count gets an entry whose rating_count is
\* None, not the count of an earlier page, and the entry has the rows of the
\* page's specification tables.
C27_RatingCountOfOwnPage ==
    [][(url_index' = url_index + 1 /\ urls[url_index'].loads
            /\ urls[url_index'].rating_count = None) =>
        LET page == urls[url_index']
            entry == crawl_data'[key_of(crawl_data, page)]
        IN  /\ "rating_count" \in DOMAIN entry
            /\ entry["rating_count"] = None
            /\ \A k \in DOMAIN tables_of(page) :
                  k \in DOMAIN entry /\ entry[k] = tables_of(page)[k]]_vars

===========================================================================
